---- MODULE Spec2Model ----
(***************************************************************************)
(* API-Hub backend: the apiKeyAuth middleware and the AccessibilityService *)
(* (getConfigBySiteId / updateConfig) over the Supabase tables api_keys,   *)
(* sites and site_configs.                                                 *)
(*                                                                         *)
(* Every `await` on the store is one atomic step of the store; the         *)
(* synchronous JavaScript that runs on the answer is part of that step.    *)
(* A nullable column holds Null (<<>>) or Some(v) (<<v>>).                 *)
(***************************************************************************)
EXTENDS Integers, Sequences, FiniteSets, TLC

\* ------------------------------------------------------------------ bounds
MaxReqs == 1      \* HTTP requests inside apiKeyAuth at the same time
MaxCalls == 2     \* service invocations in flight at the same time
MaxTime == 1      \* the clock runs 0..MaxTime
MaxFaults == 1    \* store calls that fail with a storage error

Null == <<>>
Some(v) == <<v>>
IsNull(o) == o = Null
Val(o) == o[1]

Reqs == 1..MaxReqs
Calls == 1..MaxCalls

VARIABLES
    api_keys,      \* public.api_keys: key id -> row
    sites,         \* accessibility.sites: set of rows
    site_configs,  \* accessibility.site_configs: set of rows
    now,           \* the clock behind new Date() and NOW()
    faults,        \* storage errors injected so far
    reqs,          \* request slot -> state of apiKeyAuth for that request
    calls          \* call slot -> state of a service invocation

vars == <<api_keys, sites, site_configs, now, faults, reqs, calls>>

\* ------------------------------------------------------------ credentials
\* Rows provisioned out of band (schema_api_keys.sql: api_key UNIQUE).
KeyIds == {1, 2}

InitApiKeys ==
    [k \in KeyIds |->
        CASE k = 1 -> [id |-> 1, api_key |-> "tok1", user_id |-> "X",
                       name |-> "Development Key",
                       is_active |-> Some(TRUE), expires_at |-> Null,
                       last_used_at |-> Null]
          [] k = 2 -> [id |-> 2, api_key |-> "tok2", user_id |-> "Y",
                       name |-> "Production Key",
                       is_active |-> Some(TRUE), expires_at |-> Some(0),
                       last_used_at |-> Null]]

\* The x-api-key header of an incoming request: absent, empty, a provisioned
\* token, or a token no row holds.
ApiKeyInputs == {Null, Some(""), Some("tok1"), Some("tok2"),
                 Some("invalid_key_12345")}

\* JavaScript truthiness of a header value / of a nullable boolean column.
TruthyString(o) == ~IsNull(o) /\ Val(o) # ""
TruthyBool(o) == ~IsNull(o) /\ Val(o) = TRUE

\* Mutant of SelectApiKey: a provisioned token is answered with the first
\* row of the table, not with its own.
SelectApiKeyFirstRow(table, key) ==
    LET hit == {k \in DOMAIN table : table[k].api_key = key}
    IN  IF Cardinality(hit) = 1
        THEN LET row == table[CHOOSE k \in DOMAIN table :
                                 \A j \in DOMAIN table : k <= j]
             IN  [error |-> "none",
                  data |-> Some([id |-> row.id, user_id |-> row.user_id,
                                 is_active |-> row.is_active])]
        ELSE [error |-> "PGRST116", data |-> Null]

\* .from('api_keys').select('id, user_id, is_active').eq('api_key', k).single()
\* on a store that answers: one row -> data; otherwise error PGRST116.
SelectApiKey(table, key) ==
    LET hit == {k \in DOMAIN table : table[k].api_key = key}
    IN  IF Cardinality(hit) = 1
        THEN LET row == table[CHOOSE k \in hit : TRUE]
             IN  [error |-> "none",
                  data |-> Some([id |-> row.id, user_id |-> row.user_id,
                                 is_active |-> row.is_active])]
        ELSE [error |-> "PGRST116", data |-> Null]

\* How a store call can go wrong: the client returns { error } or throws.
StoreErrors == {"db", "thrown"}

IdleReq ==
    [pc |-> "idle", apiKey |-> Null, error |-> "none", data |-> Null,
     status |-> 0, resError |-> "", user |-> Null, nextCalled |-> FALSE,
     touch |-> Null, touchState |-> "none", handled |-> FALSE]

\* res.status(s).json({ success: false, error: e, ... })
Respond(q, s, e) == [q EXCEPT !.pc = "done", !.status = s, !.resError = e]

\* Mutant of AuthDecide: the is_active check is skipped.
AuthDecideIgnoresActive(q, t) ==
    IF q.error = "thrown"
    THEN Respond(q, 500, "Internal server error")
    ELSE IF q.error = "PGRST116"
    THEN Respond(q, 403, "Invalid API key")
    ELSE IF q.error # "none"
    THEN Respond(q, 500, "Authentication error")
    ELSE [q EXCEPT !.pc = "done",
                   !.touch = Some([id |-> Val(q.data).id, ts |-> t]),
                   !.touchState = "pending",
                   !.user = Some([userId |-> Val(q.data).user_id,
                                  apiKeyId |-> Val(q.data).id]),
                   !.nextCalled = TRUE]

\* Mutant of AuthDecide: every lookup error is reported as an invalid key.
AuthDecideConflatesErrors(q, t) ==
    IF q.error # "none"
    THEN Respond(q, 403, "Invalid API key")
    ELSE IF ~TruthyBool(Val(q.data).is_active)
    THEN Respond(q, 403, "API key disabled")
    ELSE [q EXCEPT !.pc = "done",
                   !.touch = Some([id |-> Val(q.data).id, ts |-> t]),
                   !.touchState = "pending",
                   !.user = Some([userId |-> Val(q.data).user_id,
                                  apiKeyId |-> Val(q.data).id]),
                   !.nextCalled = TRUE]

\* Mutant of AuthDecide: the 403 for a disabled key lacks its return, so the
\* request is answered and passed on as well.
AuthDecideFallsThrough(q, t) ==
    IF q.error = "thrown"
    THEN Respond(q, 500, "Internal server error")
    ELSE IF q.error = "PGRST116"
    THEN Respond(q, 403, "Invalid API key")
    ELSE IF q.error # "none"
    THEN Respond(q, 500, "Authentication error")
    ELSE [q EXCEPT !.pc = "done",
                   !.status = IF TruthyBool(Val(q.data).is_active) THEN 0 ELSE 403,
                   !.resError = IF TruthyBool(Val(q.data).is_active)
                                THEN "" ELSE "API key disabled",
                   !.touch = Some([id |-> Val(q.data).id, ts |-> t]),
                   !.touchState = "pending",
                   !.user = Some([userId |-> Val(q.data).user_id,
                                  apiKeyId |-> Val(q.data).id]),
                   !.nextCalled = TRUE]

\* Mutant of AuthDecide: last_used_at is updated as soon as a row is found,
\* before the is_active check.
AuthDecideTouchesFirst(q, t) ==
    IF q.error = "thrown"
    THEN Respond(q, 500, "Internal server error")
    ELSE IF q.error = "PGRST116"
    THEN Respond(q, 403, "Invalid API key")
    ELSE IF q.error # "none"
    THEN Respond(q, 500, "Authentication error")
    ELSE IF ~TruthyBool(Val(q.data).is_active)
    THEN [Respond(q, 403, "API key disabled")
            EXCEPT !.touch = Some([id |-> Val(q.data).id, ts |-> t]),
                   !.touchState = "pending"]
    ELSE [q EXCEPT !.pc = "done",
                   !.touch = Some([id |-> Val(q.data).id, ts |-> t]),
                   !.touchState = "pending",
                   !.user = Some([userId |-> Val(q.data).user_id,
                                  apiKeyId |-> Val(q.data).id]),
                   !.nextCalled = TRUE]

\* apiKeyAuth, from the answer { data, error } of the lookup (kept in q) to
\* return / next(); t is the time new Date() reads.
AuthDecide(q, t) ==
    IF q.error = "thrown"
    THEN Respond(q, 500, "Internal server error")
    ELSE IF q.error = "PGRST116"
    THEN Respond(q, 403, "Invalid API key")
    ELSE IF q.error # "none"
    THEN Respond(q, 500, "Authentication error")
    ELSE IF ~TruthyBool(Val(q.data).is_active)
    THEN Respond(q, 403, "API key disabled")
    ELSE [q EXCEPT !.pc = "done",
                   !.touch = Some([id |-> Val(q.data).id, ts |-> t]),
                   !.touchState = "pending",
                   !.user = Some([userId |-> Val(q.data).user_id,
                                  apiKeyId |-> Val(q.data).id]),
                   !.nextCalled = TRUE]

\* const { data, error } = await ...
Answered(q, answer) == [q EXCEPT !.error = answer.error, !.data = answer.data]

\* Mutant of AuthBegin: a token that authenticated before (its row has a
\* last_used_at) is let through from memory, without a lookup.
AuthBeginCached(r, key) ==
    /\ reqs[r].pc = "idle"
    /\ LET seen == {k \in KeyIds : /\ Some(api_keys[k].api_key) = key
                                   /\ api_keys[k].last_used_at # Null}
       IN  reqs' = [reqs EXCEPT ![r] =
                  IF ~TruthyString(key)
                  THEN Respond([IdleReq EXCEPT !.apiKey = key], 401,
                               "Authentication required")
                  ELSE IF seen # {}
                  THEN LET row == api_keys[CHOOSE k \in seen : TRUE]
                       IN  [IdleReq EXCEPT !.pc = "done", !.apiKey = key,
                                           !.touchState = "ok",
                                           !.user = Some([userId |-> row.user_id,
                                                          apiKeyId |-> row.id]),
                                           !.nextCalled = TRUE]
                  ELSE [IdleReq EXCEPT !.pc = "query", !.apiKey = key]]
    /\ UNCHANGED <<api_keys, sites, site_configs, now, faults, calls>>

\* A request enters apiKeyAuth: the header is read; a missing key is answered
\* at once, otherwise the lookup is sent.
AuthBegin(r, key) ==
    /\ reqs[r].pc = "idle"
    /\ reqs' = [reqs EXCEPT ![r] =
                  IF ~TruthyString(key)
                  THEN Respond([IdleReq EXCEPT !.apiKey = key], 401,
                               "Authentication required")
                  ELSE [IdleReq EXCEPT !.pc = "query", !.apiKey = key]]
    /\ UNCHANGED <<api_keys, sites, site_configs, now, faults, calls>>

\* The store answers the lookup and the middleware decides.
AuthLookup(r) ==
    /\ reqs[r].pc = "query"
    /\ reqs' = [reqs EXCEPT ![r] =
                  AuthDecide(Answered(reqs[r],
                                      SelectApiKey(api_keys, Val(reqs[r].apiKey))), now)]
    /\ UNCHANGED <<api_keys, sites, site_configs, now, faults, calls>>

\* The lookup fails with a storage error (returned or thrown).
AuthLookupFault(r, e) ==
    /\ reqs[r].pc = "query"
    /\ faults < MaxFaults
    /\ faults' = faults + 1
    /\ reqs' = [reqs EXCEPT ![r] =
                  AuthDecide(Answered(reqs[r], [error |-> e, data |-> Null]), now)]
    /\ UNCHANGED <<api_keys, sites, site_configs, now, calls>>

\* The detached update({ last_used_at }).eq('id', data.id) reaches the store.
TouchApply(r) ==
    /\ reqs[r].touchState = "pending"
    /\ LET t == Val(reqs[r].touch)
       IN  api_keys' = [api_keys EXCEPT ![t.id].last_used_at = Some(t.ts)]
    /\ reqs' = [reqs EXCEPT ![r].touchState = "ok"]
    /\ UNCHANGED <<sites, site_configs, now, faults, calls>>

\* Mutant of TouchFail: the failed update is awaited and answered with 500.
TouchFailRejects(r) ==
    /\ reqs[r].touchState = "pending"
    /\ faults < MaxFaults
    /\ faults' = faults + 1
    /\ reqs' = [reqs EXCEPT ![r] =
                  [Respond(reqs[r], 500, "Internal server error")
                     EXCEPT !.touchState = "failed", !.nextCalled = FALSE,
                            !.user = Null]]
    /\ UNCHANGED <<api_keys, sites, site_configs, now, calls>>

\* The detached update fails: .then(() => {}) / .catch(log) drop the error.
TouchFail(r) ==
    /\ reqs[r].touchState = "pending"
    /\ faults < MaxFaults
    /\ faults' = faults + 1
    /\ reqs' = [reqs EXCEPT ![r].touchState = "failed"]
    /\ UNCHANGED <<api_keys, sites, site_configs, now, calls>>

\* The request is over and its slot is free again (a detached update that is
\* still in flight keeps the slot, which bounds the updates in flight).
AuthFinish(r) ==
    /\ reqs[r].pc = "done"
    /\ reqs[r].touchState # "pending"
    /\ reqs' = [reqs EXCEPT ![r] = IdleReq]
    /\ UNCHANGED <<api_keys, sites, site_configs, now, faults, calls>>

\* Provisioning enables or disables a key (is_active is a plain column).
SetActive(k, b) ==
    /\ api_keys[k].is_active # Some(b)
    /\ api_keys' = [api_keys EXCEPT ![k].is_active = Some(b)]
    /\ UNCHANGED <<sites, site_configs, now, faults, reqs, calls>>

Tick ==
    /\ now < MaxTime
    /\ now' = now + 1
    /\ UNCHANGED <<api_keys, sites, site_configs, faults, reqs, calls>>

\* ------------------------------------------------------------ site configs
\* The seven configuration fields and their defaults
\* (_resolveSiteConfig defaultConfig, _normalizeConfig).
Fields == {"cursor_mode_enabled", "cursor_speed", "scroll_speed",
           "accessibility_profile", "enter_hold_ms", "exit_hold_ms",
           "click_cooldown_ms"}

Defaults ==
    [f \in Fields |->
        CASE f = "cursor_mode_enabled" -> FALSE
          [] f = "cursor_speed" -> 10
          [] f = "scroll_speed" -> 10
          [] f = "accessibility_profile" -> "standard"
          [] f = "enter_hold_ms" -> 1000
          [] f = "exit_hold_ms" -> 800
          [] f = "click_cooldown_ms" -> 300]

\* Columns of site_configs; a row is a function column -> Null | Some(value).
ConfigColumns == Fields \cup {"id", "site_id", "updated_at"}

\* JavaScript values of the arguments siteId and updates.
Str(s) == [type |-> "string", v |-> s]
Undefined == [type |-> "undefined", v |-> ""]
Num(s) == [type |-> "number", v |-> s]
Obj(kv, undef) == [type |-> "object", kv |-> kv, undef |-> undef]
NullObj == [type |-> "null", kv |-> <<>>, undef |-> {}]

\* !siteId || typeof siteId !== 'string'
InvalidSiteId(siteId) == siteId.type # "string" \/ siteId.v = ""
\* !userId
InvalidUserId(userId) == IsNull(userId) \/ Val(userId) = ""
\* !updates || typeof updates !== 'object'
InvalidUpdates(updates) == updates.type # "object"

\* The result objects of the service.
Success(siteId, config) ==
    [success |-> TRUE, error |-> "", site_id |-> siteId, config |-> Some(config)]
Failure(message) ==
    [success |-> FALSE, error |-> message, site_id |-> "", config |-> Null]

\* A JS integer beyond 32 bits, hi * 10^9 + lo, next to Null and Some(v).
Wide(hi, lo) == <<hi, lo>>

\* site_configs: the five INTEGER columns hold 32-bit values; Some(v) always
\* fits, a Wide value never does.
IntegerColumns ==
    {"cursor_speed", "scroll_speed", "enter_hold_ms", "exit_hold_ms",
     "click_cooldown_ms"}
FitsColumn(col, value) == col \in IntegerColumns => Len(value) <= 1

\* Mutant of NormalizeConfig: || in place of ??, so false and 0 get the default.
NormalizeConfigFalsy(config) ==
    [f \in Fields |->
        IF \/ IsNull(config[f])
           \/ f \in IntegerColumns /\ config[f] = Some(0)
           \/ f = "cursor_mode_enabled" /\ config[f] = Some(FALSE)
        THEN Defaults[f] ELSE Val(config[f])]

\* _normalizeConfig: config.f ?? default, for the seven fields only.
NormalizeConfig(config) ==
    [f \in Fields |-> IF IsNull(config[f]) THEN Defaults[f] ELSE Val(config[f])]

\* Mutant of Sanitize: null values are dropped like undefined ones.
SanitizeDropsNull(updates) ==
    LET keep == {k \in Fields : k \in DOMAIN updates.kv /\ updates.kv[k] # Null}
    IN  [k \in keep |-> updates.kv[k]]

\* Mutant of Sanitize: a key whose value is undefined is kept, as null.
SanitizeKeepsUndefined(updates) ==
    LET keep == {k \in Fields : k \in DOMAIN updates.kv \/ k \in updates.undef}
    IN  [k \in keep |-> IF k \in DOMAIN updates.kv THEN updates.kv[k] ELSE Null]

\* Mutant of Sanitize: every key that names a column passes, allowed or not.
SanitizeNoWhitelist(updates) ==
    LET keep == {k \in ConfigColumns : k \in DOMAIN updates.kv}
    IN  [k \in keep |-> updates.kv[k]]

\* updateConfig STEP 2: copy the allowed keys whose value is not undefined.
\* (A key in updates.undef is present with the value undefined.)
Sanitize(updates) ==
    LET keep == {k \in Fields : k \in DOMAIN updates.kv}
    IN  [k \in keep |-> updates.kv[k]]

\* sanitizedUpdates.updated_at = new Date().toISOString()
WithUpdatedAt(patch, t) ==
    [k \in DOMAIN patch \cup {"updated_at"} |->
        IF k = "updated_at" THEN Some(t) ELSE patch[k]]

\* ---- the store's side of the sites / site_configs calls
\* Mutant of SitesMatching: the lookup does not filter on the caller.
SitesMatchingAnyOwner(rows, siteId, userId) ==
    {s \in rows : s.site_id = siteId}

\* sites: id PK, site_id TEXT UNIQUE, user_id.
SitesMatching(rows, siteId, userId) ==
    {s \in rows : s.site_id = siteId /\ s.user_id = userId}

\* Mutant of SiteInsertRejected: sites has no uniqueness constraint.
SiteInsertNeverRejected(rows, siteId, userId) == FALSE

\* insert into sites is rejected when the site_id is already taken.
SiteInsertRejected(rows, siteId, userId) ==
    \E s \in rows : s.site_id = siteId

NewSite(rows, siteId, userId) ==
    [id |-> Cardinality(rows) + 1, site_id |-> siteId, user_id |-> userId]

\* Mutant of ConfigsMatching: the filter on the site's key is missing.
ConfigsMatchingAll(rows, siteUuid) == rows

ConfigsMatching(rows, siteUuid) ==
    {c \in rows : c["site_id"] = Some(siteUuid)}

\* Mutant of ConfigInsertRejected: site_configs has no constraint.
ConfigInsertNeverRejected(rows, siteRows, siteUuid) == FALSE

\* insert into site_configs is rejected when the site already has a row
\* (site_id UNIQUE) or no site row has that key (the foreign key).
ConfigInsertRejected(rows, siteRows, siteUuid) ==
    \/ \E c \in rows : c["site_id"] = Some(siteUuid)
    \/ ~\E s \in siteRows : s.id = siteUuid

\* The row the store creates from defaultConfig: id and the timestamps come
\* from the column defaults.
NewConfig(rows, defaultConfig, t) ==
    [c \in ConfigColumns |->
        IF c \in DOMAIN defaultConfig THEN defaultConfig[c]
        ELSE IF c = "id" THEN Some(Cardinality(rows) + 1)
        ELSE Some(t)]

\* const defaultConfig = { site_id: siteUuid, ...the seven defaults }
DefaultConfig(siteUuid) ==
    [c \in Fields \cup {"site_id"} |->
        IF c = "site_id" THEN Some(siteUuid) ELSE Some(Defaults[c])]

\* Mutant of PatchRow: negative integers are clamped to 0.
PatchRowClamps(row, patch) ==
    [c \in ConfigColumns |->
        IF c \notin DOMAIN patch THEN row[c]
        ELSE IF c \in IntegerColumns /\ Len(patch[c]) = 1 /\ patch[c][1] < 0
        THEN Some(0) ELSE patch[c]]

\* Mutant of PatchRow: the whole record is written, the fields the patch does
\* not name going back to their defaults.
PatchRowWhole(row, patch) ==
    [c \in ConfigColumns |->
        IF c \in DOMAIN patch THEN patch[c]
        ELSE IF c \in Fields THEN Some(Defaults[c]) ELSE row[c]]

\* update(patch): the columns named in the patch are overwritten.
PatchRow(row, patch) ==
    [c \in ConfigColumns |-> IF c \in DOMAIN patch THEN patch[c] ELSE row[c]]

\* ---- the inputs of the service calls
SiteIdInputs == {Str("s1"), Str(""), Num("42")}
UserIdInputs == {Some("X"), Some("Y"), Null}
\* One well-formed (site, caller) pair, for the runs about updateConfig.
OneSiteId == {Str("s1")}
OneUserId == {Some("X")}

\* Two sites and two callers, for the runs about what one caller's update
\* does to the records of other sites and other callers.
TwoSiteIds == {Str("s1"), Str("s2")}
TwoUserIds == {Some("X"), Some("Y")}

\* { cursor_speed: 15, scroll_speed: 20, unsupported_field: "x" }
UpdSpeed ==
    Obj(("cursor_speed" :> Some(15)) @@ ("scroll_speed" :> Some(20))
        @@ ("unsupported_field" :> Some("x")), {})
\* { unsupported_field: 'value', malicious_sql: 'DROP TABLE users' }
UpdUnsupported ==
    Obj(("unsupported_field" :> Some("value"))
        @@ ("malicious_sql" :> Some("DROP TABLE users")), {})
\* { cursor_speed: -999999, scroll_speed: 999999999 }
UpdOutOfRange ==
    Obj(("cursor_speed" :> Some(-999999)) @@ ("scroll_speed" :> Some(999999999)), {})
\* { cursor_speed: null, exit_hold_ms: undefined }
UpdNull == Obj("cursor_speed" :> Null, {"exit_hold_ms"})
\* { id: 99, site_id: 99, exit_hold_ms: 0 }
UpdControl ==
    Obj(("id" :> Some(99)) @@ ("site_id" :> Some(99)) @@ ("exit_hold_ms" :> Some(0)), {})
\* {}
UpdEmpty == Obj(<<>>, {})

UpdateInputs == {UpdSpeed, UpdUnsupported, UpdNull, UpdEmpty}

\* { enter_hold_ms: 2147483648 }
UpdHuge == Obj("enter_hold_ms" :> Wide(2, 147483648), {})
\* Payloads for the runs about the values that are stored and read back.
ValueInputs == {UpdOutOfRange, UpdControl, UpdNull, UpdHuge}

\* Payloads for the runs about concurrent updates: two that set disjoint
\* fields (UpdOutOfRange, UpdControl) and two that set the same field
\* (UpdOutOfRange, UpdNull).
RaceInputs == {UpdOutOfRange, UpdControl, UpdNull}

\* Payloads for the runs about a site whose configuration record is missing
\* and about what an update can write: each has a whitelisted key.
RecoverInputs == {UpdSpeed, UpdNull, UpdControl}

\* Arguments for the runs about input validation: site ids that are empty or
\* not strings, an absent caller; and the key presented in those runs.
BadSiteIds == {Str(""), Num("42")}
NoCaller == {Null}
OneApiKey == {Some("tok1")}

\* ---- service invocations
IdleCall ==
    [pc |-> "idle", op |-> "", siteId |-> Undefined, userId |-> Null,
     updates |-> NullObj, siteUuid |-> Null, patch |-> <<>>, result |-> Null]

\* The invocation returns: its arguments stay with the caller, its locals go.
Return(call, result) ==
    [call EXCEPT !.pc = "done", !.result = Some(result),
                 !.siteUuid = Null, !.patch = <<>>]

\* Mutant of GetEntered: the validation of the arguments is missing.
GetEnteredUnvalidated(siteId, userId) ==
    [IdleCall EXCEPT !.op = "get", !.siteId = siteId, !.userId = userId,
                     !.pc = "site_fetch"]

\* getConfigBySiteId(siteId, userId) up to its first await: input validation.
GetEntered(siteId, userId) ==
    LET call == [IdleCall EXCEPT !.op = "get", !.siteId = siteId,
                                 !.userId = userId]
    IN  IF InvalidSiteId(siteId)
        THEN Return(call, Failure("Invalid siteId: must be a non-empty string"))
        ELSE IF InvalidUserId(userId)
        THEN Return(call, Failure("Invalid userId: user authentication required"))
        ELSE [call EXCEPT !.pc = "site_fetch"]

\* getConfigBySiteId(siteId, userId) is called.
GetBegin(c, siteId, userId) ==
    /\ calls[c].pc = "idle"
    /\ calls' = [calls EXCEPT ![c] = GetEntered(siteId, userId)]
    /\ UNCHANGED <<api_keys, sites, site_configs, now, faults, reqs>>

\* _resolveSite: select ... eq(site_id).eq(user_id).maybeSingle()
ResolveSiteFetch(c) ==
    /\ calls[c].pc = "site_fetch"
    /\ LET call == calls[c]
           hit == SitesMatching(sites, call.siteId.v, Val(call.userId))
       IN  calls' = [calls EXCEPT ![c] =
             IF Cardinality(hit) > 1
             THEN Return(call, Failure("Failed to query site"))
             ELSE IF hit # {}
             THEN [call EXCEPT !.pc = "config_fetch",
                               !.siteUuid = Some((CHOOSE s \in hit : TRUE).id)]
             ELSE [call EXCEPT !.pc = "site_insert"]]
    /\ UNCHANGED <<api_keys, sites, site_configs, now, faults, reqs>>

\* _resolveSite: insert([{ site_id, user_id }]).select('id, site_id').single()
ResolveSiteInsert(c) ==
    /\ calls[c].pc = "site_insert"
    /\ LET call == calls[c]
           siteId == call.siteId.v
           userId == Val(call.userId)
       IN  IF SiteInsertRejected(sites, siteId, userId)
           THEN /\ calls' = [calls EXCEPT ![c] =
                               Return(call, Failure("Failed to create site"))]
                /\ UNCHANGED sites
           ELSE /\ sites' = sites \cup {NewSite(sites, siteId, userId)}
                /\ calls' = [calls EXCEPT ![c] =
                      [call EXCEPT !.pc = "config_fetch",
                                   !.siteUuid = Some(NewSite(sites, siteId, userId).id)]]
    /\ UNCHANGED <<api_keys, site_configs, now, faults, reqs>>

\* Mutant of ResolveConfigFetch: the defaults that fill the null fields of
\* the record found are written back to it.
ResolveConfigFetchHeals(c) ==
    /\ calls[c].pc = "config_fetch"
    /\ LET call == calls[c]
           hit == ConfigsMatching(site_configs, Val(call.siteUuid))
           healed(x) == [col \in ConfigColumns |->
                           IF col \in Fields /\ x[col] = Null
                           THEN Some(Defaults[col]) ELSE x[col]]
       IN  /\ site_configs' = (site_configs \ hit) \cup {healed(x) : x \in hit}
           /\ calls' = [calls EXCEPT ![c] =
                 IF hit # {}
                 THEN Return(call, Success(call.siteId.v,
                                           NormalizeConfig(CHOOSE x \in hit : TRUE)))
                 ELSE [call EXCEPT !.pc = "config_insert"]]
    /\ UNCHANGED <<api_keys, sites, now, faults, reqs>>

\* _resolveSiteConfig: select('*').eq('site_id', siteUuid).maybeSingle(),
\* and on a row getConfigBySiteId STEP 3.
ResolveConfigFetch(c) ==
    /\ calls[c].pc = "config_fetch"
    /\ LET call == calls[c]
           hit == ConfigsMatching(site_configs, Val(call.siteUuid))
       IN  calls' = [calls EXCEPT ![c] =
             IF Cardinality(hit) > 1
             THEN Return(call, Failure("Failed to query config"))
             ELSE IF hit # {}
             THEN Return(call, Success(call.siteId.v,
                                       NormalizeConfig(CHOOSE x \in hit : TRUE)))
             ELSE [call EXCEPT !.pc = "config_insert"]]
    /\ UNCHANGED <<api_keys, sites, site_configs, now, faults, reqs>>

\* _resolveSiteConfig: insert([defaultConfig]).select('*').single(),
\* then getConfigBySiteId STEP 3.
ResolveConfigInsert(c) ==
    /\ calls[c].pc = "config_insert"
    /\ LET call == calls[c]
           siteUuid == Val(call.siteUuid)
           row == NewConfig(site_configs, DefaultConfig(siteUuid), now)
       IN  IF ConfigInsertRejected(site_configs, sites, siteUuid)
           THEN /\ calls' = [calls EXCEPT ![c] =
                               Return(call, Failure("Failed to create config"))]
                /\ UNCHANGED site_configs
           ELSE /\ site_configs' = site_configs \cup {row}
                /\ calls' = [calls EXCEPT ![c] =
                      Return(call, Success(call.siteId.v, NormalizeConfig(row)))]
    /\ UNCHANGED <<api_keys, sites, now, faults, reqs>>

\* A store call of getConfigBySiteId fails with a storage error; the error
\* is rethrown up to the catch of getConfigBySiteId.
GetFaultMessage(pc, e) ==
    IF e = "thrown" THEN "fetch failed"
    ELSE CASE pc = "site_fetch" -> "Failed to query site"
           [] pc = "site_insert" -> "Failed to create site"
           [] pc = "config_fetch" -> "Failed to query config"
           [] pc = "config_insert" -> "Failed to create config"

\* Mutant of GetFault: a thrown error leaves getConfigBySiteId uncaught.
GetFaultEscapes(c, e) ==
    /\ calls[c].pc \in {"site_fetch", "site_insert", "config_fetch", "config_insert"}
    /\ faults < MaxFaults
    /\ faults' = faults + 1
    /\ calls' = [calls EXCEPT ![c] =
                   IF e = "thrown"
                   THEN [calls[c] EXCEPT !.pc = "uncaught"]
                   ELSE Return(calls[c], Failure(GetFaultMessage(calls[c].pc, e)))]
    /\ UNCHANGED <<api_keys, sites, site_configs, now, reqs>>

GetFault(c, e) ==
    /\ calls[c].pc \in {"site_fetch", "site_insert", "config_fetch", "config_insert"}
    /\ faults < MaxFaults
    /\ faults' = faults + 1
    /\ calls' = [calls EXCEPT ![c] =
                   Return(calls[c], Failure(GetFaultMessage(calls[c].pc, e)))]
    /\ UNCHANGED <<api_keys, sites, site_configs, now, reqs>>

\* updateConfig(siteId, userId, updates) up to its first await: input
\* validation.
UpdateEntered(siteId, userId, updates) ==
    LET call == [IdleCall EXCEPT !.op = "update", !.siteId = siteId,
                                 !.userId = userId, !.updates = updates]
    IN  IF InvalidSiteId(siteId)
        THEN Return(call, Failure("Invalid siteId: must be a non-empty string"))
        ELSE IF InvalidUserId(userId)
        THEN Return(call, Failure("Invalid userId: user authentication required"))
        ELSE IF InvalidUpdates(updates)
        THEN Return(call, Failure("Invalid updates: must be an object"))
        ELSE [call EXCEPT !.pc = "verify_site"]

\* updateConfig(siteId, userId, updates) is called.
UpdateBegin(c, siteId, userId, updates) ==
    /\ calls[c].pc = "idle"
    /\ calls' = [calls EXCEPT ![c] = UpdateEntered(siteId, userId, updates)]
    /\ UNCHANGED <<api_keys, sites, site_configs, now, faults, reqs>>

\* Mutant of AfterVerify: the "no valid fields" check is missing.
AfterVerifySkipsEmptyCheck(call, site, t) ==
    [call EXCEPT !.pc = "config_update", !.siteUuid = Some(site.id),
                 !.patch = WithUpdatedAt(Sanitize(call.updates), t)]

\* updateConfig STEP 2, on the site row of STEP 1: the whitelist, the
\* "no valid fields" check and the timestamp.
AfterVerify(call, site, t) ==
    LET sanitizedUpdates == Sanitize(call.updates)
    IN  IF DOMAIN sanitizedUpdates = {}
        THEN Return(call, Failure("No valid fields to update"))
        ELSE [call EXCEPT !.pc = "config_update", !.siteUuid = Some(site.id),
                          !.patch = WithUpdatedAt(sanitizedUpdates, t)]

\* Mutant of UpdateVerifySite: a missing site is created on the way.
UpdateVerifySiteCreates(c) ==
    /\ calls[c].pc = "verify_site"
    /\ LET call == calls[c]
           hit == SitesMatching(sites, call.siteId.v, Val(call.userId))
           made == NewSite(sites, call.siteId.v, Val(call.userId))
       IN  IF hit = {}
           THEN /\ sites' = sites \cup {made}
                /\ calls' = [calls EXCEPT ![c] = AfterVerify(call, made, now)]
           ELSE /\ calls' = [calls EXCEPT ![c] =
                                AfterVerify(call, CHOOSE s \in hit : TRUE, now)]
                /\ UNCHANGED sites
    /\ UNCHANGED <<api_keys, site_configs, now, faults, reqs>>

\* updateConfig STEP 1: select ... eq(site_id).eq(user_id).single(), then STEP 2.
UpdateVerifySite(c) ==
    /\ calls[c].pc = "verify_site"
    /\ LET call == calls[c]
           hit == SitesMatching(sites, call.siteId.v, Val(call.userId))
       IN  calls' = [calls EXCEPT ![c] =
             IF Cardinality(hit) # 1
             THEN Return(call, Failure("Site not found or access denied"))
             ELSE AfterVerify(call, CHOOSE s \in hit : TRUE, now)]
    /\ UNCHANGED <<api_keys, sites, site_configs, now, faults, reqs>>

\* Mutant of UpdateApply: a missing record is created from the defaults and
\* the patch (an upsert).
UpdateApplyUpserts(c) ==
    /\ calls[c].pc = "config_update"
    /\ LET call == calls[c]
           siteUuid == Val(call.siteUuid)
           hit == ConfigsMatching(site_configs, siteUuid)
           made == PatchRow(NewConfig(site_configs, DefaultConfig(siteUuid), now),
                            call.patch)
           updated == IF hit = {} THEN {made}
                      ELSE {PatchRow(x, call.patch) : x \in hit}
       IN  /\ site_configs' = (site_configs \ hit) \cup updated
           /\ calls' = [calls EXCEPT ![c] =
                 Return(call, Success(call.siteId.v,
                                NormalizeConfig(CHOOSE x \in updated : TRUE)))]
    /\ UNCHANGED <<api_keys, sites, now, faults, reqs>>

\* Mutant of UpdateApply: the matched record is removed instead of patched.
UpdateApplyRemoves(c) ==
    /\ calls[c].pc = "config_update"
    /\ LET call == calls[c]
           hit == ConfigsMatching(site_configs, Val(call.siteUuid))
       IN  /\ site_configs' = site_configs \ hit
           /\ calls' = [calls EXCEPT ![c] =
                          Return(call, Failure("Failed to update config"))]
    /\ UNCHANGED <<api_keys, sites, now, faults, reqs>>

\* Mutant of UpdateApply: the answer is built from the patch, not from the
\* row read back.
UpdateApplyReturnsPatch(c) ==
    /\ calls[c].pc = "config_update"
    /\ LET call == calls[c]
           hit == ConfigsMatching(site_configs, Val(call.siteUuid))
           updated == {PatchRow(x, call.patch) : x \in hit}
           sent == [f \in Fields |->
                      IF f \in DOMAIN call.patch THEN call.patch[f] ELSE Null]
       IN  /\ site_configs' = (site_configs \ hit) \cup updated
           /\ calls' = [calls EXCEPT ![c] =
                 IF Cardinality(updated) # 1
                 THEN Return(call, Failure("Failed to update config"))
                 ELSE Return(call, Success(call.siteId.v, NormalizeConfig(sent)))]
    /\ UNCHANGED <<api_keys, sites, now, faults, reqs>>

\* updateConfig STEP 3 and 4: update(patch).eq('site_id', site.id)
\* .select('*').single(), then the normalized answer.
UpdateApply(c) ==
    /\ calls[c].pc = "config_update"
    /\ LET call == calls[c]
           hit == ConfigsMatching(site_configs, Val(call.siteUuid))
           updated == {PatchRow(x, call.patch) : x \in hit}
       IN  IF \/ ~(DOMAIN call.patch \subseteq ConfigColumns)
              \/ \E col \in DOMAIN call.patch : ~FitsColumn(col, call.patch[col])
           THEN /\ calls' = [calls EXCEPT ![c] =
                               Return(call, Failure("Failed to update config"))]
                /\ UNCHANGED site_configs
           ELSE /\ site_configs' = (site_configs \ hit) \cup updated
                /\ calls' = [calls EXCEPT ![c] =
                      IF Cardinality(updated) # 1
                      THEN Return(call, Failure("Failed to update config"))
                      ELSE Return(call, Success(call.siteId.v,
                                     NormalizeConfig(CHOOSE x \in updated : TRUE)))]
    /\ UNCHANGED <<api_keys, sites, now, faults, reqs>>

UpdateFaultMessage(pc, e) ==
    IF e = "thrown" THEN "fetch failed"
    ELSE IF pc = "verify_site" THEN "Failed to verify site"
    ELSE "Failed to update config"

\* A store call of updateConfig fails with a storage error.
UpdateFault(c, e) ==
    /\ calls[c].pc \in {"verify_site", "config_update"}
    /\ faults < MaxFaults
    /\ faults' = faults + 1
    /\ calls' = [calls EXCEPT ![c] =
                   Return(calls[c], Failure(UpdateFaultMessage(calls[c].pc, e)))]
    /\ UNCHANGED <<api_keys, sites, site_configs, now, reqs>>

\* The caller has its result; the slot is free again.
CallFinish(c) ==
    /\ calls[c].pc = "done"
    /\ calls' = [calls EXCEPT ![c] = IdleCall]
    /\ UNCHANGED <<api_keys, sites, site_configs, now, faults, reqs>>

\* ------------------------------------------------------------ the routes
\* app.use('/api/accessibility', apiKeyAuth, accessibilityRoutes): the route
\* handler runs for a request once apiKeyAuth has called next().
\* !siteId
MissingParam(siteId) == siteId.type = "undefined" \/ siteId.v = ""
\* !updates || Object.keys(updates).length === 0
MissingBody(updates) ==
    updates.type # "object" \/ DOMAIN updates.kv \cup updates.undef = {}

\* What ?siteId= can be: absent, empty, a site id.
QueryInputs == {Undefined, Str(""), Str("s1")}
\* What the PUT body can be: absent, {}, a payload.
BodyInputs == {NullObj, UpdEmpty, UpdSpeed}

\* router.get('/config') up to the first await of the service: a missing
\* siteId is answered 400, otherwise getConfigBySiteId(siteId, req.user.userId)
\* is entered.
RouteGet(r, c, siteId) ==
    /\ reqs[r].pc = "done"
    /\ reqs[r].nextCalled
    /\ ~reqs[r].handled
    /\ calls[c].pc = "idle"
    /\ IF MissingParam(siteId)
       THEN /\ reqs' = [reqs EXCEPT ![r] =
                          [Respond(reqs[r], 400, "Missing parameter")
                             EXCEPT !.handled = TRUE]]
            /\ UNCHANGED calls
       ELSE /\ reqs' = [reqs EXCEPT ![r].handled = TRUE]
            /\ calls' = [calls EXCEPT ![c] =
                           GetEntered(siteId, Some(Val(reqs[r].user).userId))]
    /\ UNCHANGED <<api_keys, sites, site_configs, now, faults>>

\* router.put('/sites/:siteId/config') up to the first await of the service.
RoutePut(r, c, siteId, updates) ==
    /\ reqs[r].pc = "done"
    /\ reqs[r].nextCalled
    /\ ~reqs[r].handled
    /\ calls[c].pc = "idle"
    /\ IF MissingParam(siteId)
       THEN /\ reqs' = [reqs EXCEPT ![r] =
                          [Respond(reqs[r], 400, "Missing parameter")
                             EXCEPT !.handled = TRUE]]
            /\ UNCHANGED calls
       ELSE IF MissingBody(updates)
       THEN /\ reqs' = [reqs EXCEPT ![r] =
                          [Respond(reqs[r], 400, "Missing body")
                             EXCEPT !.handled = TRUE]]
            /\ UNCHANGED calls
       ELSE /\ reqs' = [reqs EXCEPT ![r].handled = TRUE]
            /\ calls' = [calls EXCEPT ![c] =
                           UpdateEntered(siteId, Some(Val(reqs[r].user).userId),
                                         updates)]
    /\ UNCHANGED <<api_keys, sites, site_configs, now, faults>>

\* router.get('/config'), after the service has answered:
\* res.status(500).json(result) for a failure, res.json(result) otherwise.
GetStatus(result) == IF ~result.success THEN 500 ELSE 200

\* router.put('/sites/:siteId/config'), after the service has answered:
\* res.status(400).json(result) for a failure, res.json(result) otherwise.
PutStatus(result) == IF ~result.success THEN 400 ELSE 200

Init ==
    /\ api_keys = InitApiKeys
    /\ sites = {}
    /\ site_configs = {}
    /\ now = 0
    /\ faults = 0
    /\ reqs = [r \in Reqs |-> IdleReq]
    /\ calls = [c \in Calls |-> IdleCall]

NextAuth ==
    \/ \E r \in Reqs, key \in ApiKeyInputs : AuthBegin(r, key)
    \/ \E r \in Reqs : AuthLookup(r)
    \/ \E r \in Reqs, e \in StoreErrors : AuthLookupFault(r, e)
    \/ \E r \in Reqs : TouchApply(r)
    \/ \E r \in Reqs : TouchFail(r)
    \/ \E r \in Reqs : AuthFinish(r)
    \/ \E k \in KeyIds, b \in BOOLEAN : SetActive(k, b)
    \/ Tick

SpecAuth == Init /\ [][NextAuth]_vars
\* getConfigBySiteId alone, called by two callers with well- and ill-formed
\* arguments, while the clock runs.
NextResolve ==
    \/ \E c \in Calls, siteId \in SiteIdInputs, userId \in UserIdInputs :
          GetBegin(c, siteId, userId)
    \/ \E c \in Calls : ResolveSiteFetch(c)
    \/ \E c \in Calls : ResolveSiteInsert(c)
    \/ \E c \in Calls : ResolveConfigFetch(c)
    \/ \E c \in Calls : ResolveConfigInsert(c)
    \/ \E c \in Calls, e \in StoreErrors : GetFault(c, e)
    \/ \E c \in Calls : CallFinish(c)
    \/ Tick

SpecResolve == Init /\ [][NextResolve]_vars

\* getConfigBySiteId and updateConfig of one caller on one site, with the
\* update payloads of UpdateInputs; all calls fall within one reading of the
\* clock.
NextUpdate ==
    \/ \E c \in Calls, siteId \in OneSiteId, userId \in OneUserId :
          GetBegin(c, siteId, userId)
    \/ \E c \in Calls : ResolveSiteFetch(c)
    \/ \E c \in Calls : ResolveSiteInsert(c)
    \/ \E c \in Calls : ResolveConfigFetch(c)
    \/ \E c \in Calls : ResolveConfigInsert(c)
    \/ \E c \in Calls, e \in StoreErrors : GetFault(c, e)
    \/ \E c \in Calls, siteId \in OneSiteId, userId \in OneUserId,
          updates \in UpdateInputs : UpdateBegin(c, siteId, userId, updates)
    \/ \E c \in Calls : UpdateVerifySite(c)
    \/ \E c \in Calls : UpdateApply(c)
    \/ \E c \in Calls, e \in StoreErrors : UpdateFault(c, e)
    \/ \E c \in Calls : CallFinish(c)

SpecUpdate == Init /\ [][NextUpdate]_vars

\* getConfigBySiteId of two callers on two sites and updateConfig of both
\* callers on the first site, with one payload; no storage errors, and all
\* calls fall within one reading of the clock.
NextIsolation ==
    \/ \E c \in Calls, siteId \in TwoSiteIds, userId \in TwoUserIds :
          GetBegin(c, siteId, userId)
    \/ \E c \in Calls : ResolveSiteFetch(c)
    \/ \E c \in Calls : ResolveSiteInsert(c)
    \/ \E c \in Calls : ResolveConfigFetch(c)
    \/ \E c \in Calls : ResolveConfigInsert(c)
    \/ \E c \in Calls, siteId \in OneSiteId, userId \in TwoUserIds :
          UpdateBegin(c, siteId, userId, UpdSpeed)
    \/ \E c \in Calls : UpdateVerifySite(c)
    \/ \E c \in Calls : UpdateApply(c)
    \/ \E c \in Calls : CallFinish(c)

SpecIsolation == Init /\ [][NextIsolation]_vars

\* getConfigBySiteId and updateConfig of one caller on one site, with the
\* payloads of ValueInputs; no storage errors, one reading of the clock.
NextValues ==
    \/ \E c \in Calls, siteId \in OneSiteId, userId \in OneUserId :
          GetBegin(c, siteId, userId)
    \/ \E c \in Calls : ResolveSiteFetch(c)
    \/ \E c \in Calls : ResolveSiteInsert(c)
    \/ \E c \in Calls : ResolveConfigFetch(c)
    \/ \E c \in Calls : ResolveConfigInsert(c)
    \/ \E c \in Calls, siteId \in OneSiteId, userId \in OneUserId,
          updates \in ValueInputs : UpdateBegin(c, siteId, userId, updates)
    \/ \E c \in Calls : UpdateVerifySite(c)
    \/ \E c \in Calls : UpdateApply(c)
    \/ \E c \in Calls : CallFinish(c)

SpecValues == Init /\ [][NextValues]_vars

\* Requests through apiKeyAuth and on to the two routes and the service, the
\* service invocation of request slot r running in call slot r; the first
\* key is switched off and on; no storage errors, one reading of the clock.
NextRoutes ==
    \/ \E r \in Reqs, key \in ApiKeyInputs : AuthBegin(r, key)
    \/ \E r \in Reqs : AuthLookup(r)
    \/ \E r \in Reqs : TouchApply(r)
    \/ \E r \in Reqs : AuthFinish(r)
    \/ \E b \in BOOLEAN : SetActive(1, b)
    \/ \E r \in Reqs, siteId \in QueryInputs : RouteGet(r, r, siteId)
    \/ \E r \in Reqs, siteId \in OneSiteId, updates \in BodyInputs :
          RoutePut(r, r, siteId, updates)
    \/ \E c \in Reqs : ResolveSiteFetch(c)
    \/ \E c \in Reqs : ResolveSiteInsert(c)
    \/ \E c \in Reqs : ResolveConfigFetch(c)
    \/ \E c \in Reqs : ResolveConfigInsert(c)
    \/ \E c \in Reqs : UpdateVerifySite(c)
    \/ \E c \in Reqs : UpdateApply(c)
    \/ \E c \in Reqs : CallFinish(c)

SpecRoutes == Init /\ [][NextRoutes]_vars

\* getConfigBySiteId and updateConfig called with an ill-formed site id or
\* without a caller, and GET /config requests of one key with and without
\* siteId (the service invocation of request slot r runs in call slot r); no
\* storage errors, one reading of the clock.
NextValidation ==
    \/ \E c \in Calls, siteId \in BadSiteIds, userId \in OneUserId :
          GetBegin(c, siteId, userId)
    \/ \E c \in Calls, siteId \in SiteIdInputs, userId \in NoCaller :
          GetBegin(c, siteId, userId)
    \/ \E c \in Calls, siteId \in BadSiteIds, userId \in OneUserId :
          UpdateBegin(c, siteId, userId, UpdSpeed)
    \/ \E c \in Calls, siteId \in SiteIdInputs, userId \in NoCaller :
          UpdateBegin(c, siteId, userId, UpdSpeed)
    \/ \E r \in Reqs, key \in OneApiKey : AuthBegin(r, key)
    \/ \E r \in Reqs : AuthLookup(r)
    \/ \E r \in Reqs : TouchApply(r)
    \/ \E r \in Reqs : AuthFinish(r)
    \/ \E r \in Reqs, siteId \in QueryInputs : RouteGet(r, r, siteId)
    \/ \E c \in Calls : ResolveSiteFetch(c)
    \/ \E c \in Calls : ResolveSiteInsert(c)
    \/ \E c \in Calls : ResolveConfigFetch(c)
    \/ \E c \in Calls : ResolveConfigInsert(c)
    \/ \E c \in Calls : CallFinish(c)

SpecValidation == Init /\ [][NextValidation]_vars

\* Concurrent updateConfig calls of one caller on one site: the slots resolve
\* the site any number of times, and each slot makes at most one update.
NextRace ==
    \/ \E c \in Calls, siteId \in OneSiteId, userId \in OneUserId :
          GetBegin(c, siteId, userId)
    \/ \E c \in Calls : ResolveSiteFetch(c)
    \/ \E c \in Calls : ResolveSiteInsert(c)
    \/ \E c \in Calls : ResolveConfigFetch(c)
    \/ \E c \in Calls : ResolveConfigInsert(c)
    \/ \E c \in Calls, siteId \in OneSiteId, userId \in OneUserId,
          updates \in RaceInputs : UpdateBegin(c, siteId, userId, updates)
    \/ \E c \in Calls : UpdateVerifySite(c)
    \/ \E c \in Calls : UpdateApply(c)
    \/ \E c \in Calls : calls[c].op = "get" /\ CallFinish(c)

SpecRace == Init /\ [][NextRace]_vars

\* getConfigBySiteId and updateConfig of one caller on one site, where store
\* calls of getConfigBySiteId can fail, so that a site record can be left
\* without its configuration record.
NextRecover ==
    \/ \E c \in Calls, siteId \in OneSiteId, userId \in OneUserId :
          GetBegin(c, siteId, userId)
    \/ \E c \in Calls : ResolveSiteFetch(c)
    \/ \E c \in Calls : ResolveSiteInsert(c)
    \/ \E c \in Calls : ResolveConfigFetch(c)
    \/ \E c \in Calls : ResolveConfigInsert(c)
    \/ \E c \in Calls, e \in StoreErrors : GetFault(c, e)
    \/ \E c \in Calls, siteId \in OneSiteId, userId \in OneUserId,
          updates \in RecoverInputs : UpdateBegin(c, siteId, userId, updates)
    \/ \E c \in Calls : UpdateVerifySite(c)
    \/ \E c \in Calls : UpdateApply(c)
    \/ \E c \in Calls : CallFinish(c)

SpecRecover == Init /\ [][NextRecover]_vars

\* ================================================================ claims
Missing(r) == ~TruthyString(reqs[r].apiKey)
RowsOf(key) == {k \in KeyIds : api_keys[k].api_key = key}
Decided(r) == reqs[r].pc = "query" /\ reqs'[r].pc = "done"
LetThrough(q) == q.nextCalled /\ q.status = 0 /\ ~IsNull(q.user)
Rejected(q, s, e) == q.status = s /\ q.resError = e /\ ~q.nextCalled /\ IsNull(q.user)

\* C4: the outcome of authenticate is determined by the credential and the
\* api_keys table as it is when the lookup is answered: a missing credential
\* gives 401 without any lookup, an unknown one 403 "Invalid API key", one
\* whose row has is_active = false 403 "API key disabled", one whose row is
\* active is let through; nothing else is let through.
C4_AuthOutcome ==
    [][\A r \in Reqs :
        /\ (reqs[r].pc = "idle" /\ reqs'[r].pc # "idle" /\ Missing(r)')
              => /\ reqs'[r].pc = "done"
                 /\ Rejected(reqs'[r], 401, "Authentication required")
        /\ reqs[r].pc = "query" => ~Missing(r)
        /\ (Decided(r) /\ reqs'[r].error \notin StoreErrors)
              => LET rows == RowsOf(Val(reqs[r].apiKey))
                 IN  /\ rows = {}
                        => Rejected(reqs'[r], 403, "Invalid API key")
                     /\ (\E k \in rows : api_keys[k].is_active = Some(FALSE))
                        => Rejected(reqs'[r], 403, "API key disabled")
                     /\ (\E k \in rows : api_keys[k].is_active = Some(TRUE))
                        => LetThrough(reqs'[r])
                     /\ reqs'[r].nextCalled
                        => \E k \in rows : api_keys[k].is_active = Some(TRUE)
      ]_vars

\* C4 witness: a request is refused as disabled with the key that let an
\* earlier request through (its last_used_at is set).
C4_Witness ==
    \E r \in Reqs : \E k \in KeyIds :
        /\ reqs[r].pc = "done"
        /\ Rejected(reqs[r], 403, "API key disabled")
        /\ reqs[r].apiKey = Some(api_keys[k].api_key)
        /\ api_keys[k].last_used_at # Null

\* C5: a credential whose row has expires_at in the past is never let
\* through (touch.ts is the time at which the request was let through).
C5_ExpiredNeverAuthenticates ==
    \A r \in Reqs :
        reqs[r].nextCalled
          => LET row == api_keys[Val(reqs[r].touch).id]
             IN  IsNull(row.expires_at) \/ Val(row.expires_at) >= Val(reqs[r].touch).ts

\* C6: a lookup that fails with a storage error is answered 500 and never as
\* an invalid key; a lookup that finds no row is answered 403 "Invalid API
\* key" and never 500; in neither case is next() called.
C6_StorageErrorIsNotInvalidKey ==
    \A r \in Reqs :
        reqs[r].pc = "done" =>
          /\ reqs[r].error \in StoreErrors
               => /\ reqs[r].status = 500
                  /\ reqs[r].resError \in {"Authentication error", "Internal server error"}
                  /\ ~reqs[r].nextCalled
          /\ reqs[r].error = "PGRST116"
               => Rejected(reqs[r], 403, "Invalid API key")

\* C6 witness: a request whose lookup failed with a storage error is answered.
C6_Witness ==
    \E r \in Reqs : reqs[r].pc = "done" /\ reqs[r].error = "db" /\ reqs[r].status = 500

\* C7: the last_used_at update is started, not awaited, when a request is let
\* through, and whatever becomes of it (applied, failed, still in flight) the
\* request stays let through with the same identity and no error response.
C7_TouchDecoupled ==
    [][\A r \in Reqs :
        /\ (Decided(r) /\ reqs'[r].nextCalled)
              => reqs'[r].touchState = "pending" /\ LetThrough(reqs'[r])
        /\ (reqs[r].nextCalled /\ reqs'[r].pc = "done")
              => LetThrough(reqs'[r]) /\ reqs'[r].user = reqs[r].user
      ]_vars

\* C7 witness: a request is let through although its last_used_at update failed.
C7_Witness ==
    \E r \in Reqs : LetThrough(reqs[r]) /\ reqs[r].touchState = "failed"
\* ---- the service
ValidGet(call) ==
    call.op = "get" /\ ~InvalidSiteId(call.siteId) /\ ~InvalidUserId(call.userId)
Succeeded(call) == call.pc = "done" /\ Val(call.result).success
OwnSites(call) == SitesMatching(sites, call.siteId.v, Val(call.userId))
Left(c, pc) == calls[c].pc = pc /\ calls'[c].pc # pc
NoFaultNow == faults' = faults
RowOf(rows, siteUuid) == CHOOSE x \in ConfigsMatching(rows, siteUuid) : TRUE
\* What a reader of the row sees in field f: the value, or the default for null.
View(row, f) == IF row[f] = Null THEN Defaults[f] ELSE row[f][1]

\* C1: concurrent getConfigBySiteId calls for one new (site, caller) pair all
\* succeed: with no storage error and no other caller holding the site
\* identifier, every finished call has succeeded.
C1_ConcurrentFirstTouch ==
    \A c \in Calls :
        (/\ calls[c].pc = "done"
         /\ ValidGet(calls[c])
         /\ faults = 0
         /\ \A s \in sites : s.site_id = calls[c].siteId.v
                               => s.user_id = Val(calls[c].userId))
          => Succeeded(calls[c])

\* C2: the same site identifier resolves for two different callers: a call by
\* one caller, free of storage errors, succeeds and leaves that caller its
\* own site row although another caller already has a row for the identifier.
C2_DistinctCallersResolve ==
    \A c \in Calls : \A s \in sites :
        (/\ calls[c].pc = "done"
         /\ ValidGet(calls[c])
         /\ faults = 0
         /\ s.site_id = calls[c].siteId.v
         /\ s.user_id # Val(calls[c].userId)
         /\ OwnSites(calls[c]) = {})
          => Succeeded(calls[c])

\* C3: for a pair with no site record, getConfigBySiteId creates the site and
\* then the all-defaults configuration and returns it (no storage error).
C3_FreshPairGetsDefaults ==
    [][\A c \in Calls :
        /\ (Left(c, "site_insert") /\ NoFaultNow /\ OwnSites(calls[c]) = {})
              => /\ calls'[c].pc = "config_fetch"
                 /\ SitesMatching(sites', calls[c].siteId.v, Val(calls[c].userId)) # {}
        /\ (Left(c, "config_insert") /\ NoFaultNow
              /\ ConfigsMatching(site_configs, Val(calls[c].siteUuid)) = {})
              => /\ Succeeded(calls'[c])
                 /\ Val(Val(calls'[c].result).config) = Defaults
      ]_vars

\* C8 (as amended): a successful updateConfig stores, for each whitelisted key
\* of the payload, the supplied value (null included) and returns it, or the
\* field's default when the supplied value is null; every other field keeps
\* its value (a key given as undefined counts as absent); a payload with a
\* whitelisted key, null or not, goes to the store; id and site_id are
\* untouched and no other key reaches the store; a getConfigBySiteId that
\* finds the row returns the same view of it.
C8_RoundTrip ==
    [][\A c \in Calls :
        /\ calls[c].pc = "config_update"
              => DOMAIN calls[c].patch \subseteq Fields \cup {"updated_at"}
        /\ (/\ Left(c, "verify_site")
            /\ NoFaultNow
            /\ OwnSites(calls[c]) # {}
            /\ DOMAIN calls[c].updates.kv \cap Fields # {})
              => /\ calls'[c].pc = "config_update"
                 /\ \A f \in DOMAIN calls[c].updates.kv \cap Fields :
                       /\ f \in DOMAIN calls'[c].patch
                       /\ calls'[c].patch[f] = calls[c].updates.kv[f]
        /\ (Left(c, "config_update") /\ Succeeded(calls'[c]))
              => LET upd == calls[c].updates.kv
                     before == RowOf(site_configs, Val(calls[c].siteUuid))
                     after == RowOf(site_configs', Val(calls[c].siteUuid))
                     ret == Val(Val(calls'[c].result).config)
                 IN  /\ DOMAIN ret = Fields
                     /\ DOMAIN after = ConfigColumns
                     /\ after["id"] = before["id"]
                     /\ after["site_id"] = before["site_id"]
                     /\ \A f \in Fields :
                          /\ (f \in DOMAIN upd /\ upd[f] # Null)
                                => after[f] = upd[f] /\ ret[f] = upd[f][1]
                          /\ (f \in DOMAIN upd /\ upd[f] = Null)
                                => after[f] = Null /\ ret[f] = Defaults[f]
                          /\ f \notin DOMAIN upd
                                => after[f] = before[f] /\ ret[f] = View(before, f)
        /\ (Left(c, "config_fetch") /\ Succeeded(calls'[c]))
              => LET row == RowOf(site_configs, Val(calls[c].siteUuid))
                 IN  Val(Val(calls'[c].result).config) = [f \in Fields |-> View(row, f)]
      ]_vars

\* C8 witness: an update that supplied null for a whitelisted key succeeded.
C8_Witness ==
    \E c \in Calls :
        /\ Succeeded(calls[c])
        /\ calls[c].op = "update"
        /\ \E f \in Fields : f \in DOMAIN calls[c].updates.kv
                               /\ calls[c].updates.kv[f] = Null

\* C8 as first stated: after a successful updateConfig every whitelisted key
\* of the payload reads back as exactly the supplied value.
C8_SuppliedValueReadsBack ==
    [][\A c \in Calls :
        (Left(c, "config_update") /\ Succeeded(calls'[c]))
          => LET upd == calls[c].updates.kv
                 after == RowOf(site_configs', Val(calls[c].siteUuid))
             IN  \A f \in Fields :
                    f \in DOMAIN upd => Some(View(after, f)) = upd[f]
      ]_vars

NoWhitelistedKey(u) ==
    /\ u.type = "object"
    /\ DOMAIN u.kv \cup u.undef # {}
    /\ (DOMAIN u.kv \cup u.undef) \cap Fields = {}

\* C9 (as amended): updateConfig on a site of the caller with a non-empty
\* payload without any whitelisted key returns the failure "No valid fields
\* to update" and leaves the stored configurations unchanged.
C9_NoValidFieldsRejected ==
    [][\A c \in Calls :
        (/\ Left(c, "verify_site")
         /\ NoFaultNow
         /\ NoWhitelistedKey(calls[c].updates)
         /\ OwnSites(calls[c]) # {})
          => /\ calls'[c].pc = "done"
             /\ ~Val(calls'[c].result).success
             /\ Val(calls'[c].result).error = "No valid fields to update"
             /\ site_configs' = site_configs
      ]_vars

\* C9 witness: such an update has been rejected for an existing site.
C9_Witness ==
    \E c \in Calls :
        /\ calls[c].pc = "done"
        /\ calls[c].op = "update"
        /\ NoWhitelistedKey(calls[c].updates)
        /\ Val(calls[c].result).error = "No valid fields to update"
        /\ OwnSites(calls[c]) # {}

\* C9 as first stated: such an update returns success (a permissive no-op).
C9_PermissiveNoOp ==
    [][\A c \in Calls :
        (/\ Left(c, "verify_site")
         /\ NoFaultNow
         /\ NoWhitelistedKey(calls[c].updates)
         /\ OwnSites(calls[c]) # {})
          => Succeeded(calls'[c]) /\ site_configs' = site_configs
      ]_vars

EmptyMapping(u) == u.type = "object" /\ DOMAIN u.kv = {} /\ u.undef = {}

\* C10: updateConfig with an empty mapping fails without any read or write
\* of sites or site_configs: such a call never has a store call in flight
\* and ends with the failure for an empty update.
C10_EmptyUpdateNoStorage ==
    \A c \in Calls :
        (calls[c].op = "update" /\ EmptyMapping(calls[c].updates)
            /\ ~InvalidSiteId(calls[c].siteId) /\ ~InvalidUserId(calls[c].userId))
          => /\ calls[c].pc = "done"
             /\ ~Val(calls[c].result).success
             /\ Val(calls[c].result).error = "No valid fields to update"

\* C11: updateConfig for a (site, caller) pair without a site record returns
\* "Site not found or access denied"; that step and every other step of an
\* updateConfig call leave sites as they are, and the rejected call leaves
\* site_configs as they are.
C11_UnknownSiteRejected ==
    [][\A c \in Calls :
        /\ (Left(c, "verify_site") /\ NoFaultNow /\ OwnSites(calls[c]) = {})
              => /\ calls'[c].pc = "done"
                 /\ ~Val(calls'[c].result).success
                 /\ Val(calls'[c].result).error = "Site not found or access denied"
                 /\ sites' = sites
                 /\ site_configs' = site_configs
        /\ (calls[c].op = "update" /\ calls'[c] # calls[c]) => sites' = sites
      ]_vars

\* C11 witness: an update was refused for a pair that has no site record.
C11_Witness ==
    \E c \in Calls :
        /\ calls[c].pc = "done"
        /\ calls[c].op = "update"
        /\ Val(calls[c].result).error = "Site not found or access denied"
        /\ OwnSites(calls[c]) = {}

\* C12: what updateConfig answers to a caller does not depend on the site
\* records of other callers: the site lookup of an updateConfig call ends as
\* it would if the sites table held the caller's own rows only, so a caller
\* without the site gets the same "Site not found or access denied" whether
\* or not another caller owns a site of that identifier.
C12_OwnershipNotDisclosed ==
    [][\A c \in Calls :
        Left(c, "verify_site")
          => LET call == calls[c]
                 own == {s \in sites : s.user_id = Val(call.userId)}
                 hit == SitesMatching(own, call.siteId.v, Val(call.userId))
             IN  calls'[c] =
                   IF Cardinality(hit) # 1
                   THEN Return(call, Failure("Site not found or access denied"))
                   ELSE AfterVerify(call, CHOOSE s \in hit : TRUE, now)
      ]_vars

\* C12 witness: an update was refused as "not found" for a caller while
\* another caller owns a site of that identifier.
C12_Witness ==
    \E c \in Calls :
        /\ calls[c].pc = "done"
        /\ calls[c].op = "update"
        /\ Val(calls[c].result).error = "Site not found or access denied"
        /\ \E s \in sites : /\ s.site_id = calls[c].siteId.v
                             /\ s.user_id # Val(calls[c].userId)

\* C14: the store step of updateConfig(s, X, u) touches nothing but the
\* configuration record of the site record of (s, X), and in it only the
\* whitelisted columns named in u and updated_at: the other configuration
\* records, the number of records, sites and api_keys stay as they are.
C14_UpdateFrame ==
    [][\A c \in Calls :
        Left(c, "config_update")
          => LET call == calls[c]
                 site == CHOOSE s \in OwnSites(call) : TRUE
                 mine(rows) == {x \in rows : x["site_id"] = Some(site.id)}
                 written == (DOMAIN call.updates.kv \cap Fields) \cup {"updated_at"}
             IN  /\ sites' = sites
                 /\ api_keys' = api_keys
                 /\ site_configs' \ mine(site_configs') = site_configs \ mine(site_configs)
                 /\ Cardinality(mine(site_configs')) = Cardinality(mine(site_configs))
                 /\ \A x \in mine(site_configs) : \E y \in mine(site_configs') :
                       \A col \in ConfigColumns \ written : y[col] = x[col]
      ]_vars

\* C14 witness: an update succeeded while a configuration record of another
\* site exists.
C14_Witness ==
    \E c \in Calls :
        /\ calls[c].op = "update"
        /\ Succeeded(calls[c])
        /\ \E s \in OwnSites(calls[c]) : \E x \in site_configs :
              x["site_id"] # Some(s.id)

\* C13: the configuration in every successful answer of getConfigBySiteId or
\* updateConfig has exactly the seven fields; each is the stored value when
\* that is not null (false and 0 included) and the field's default when it is
\* null; reading a null leaves storage as it is.
C13_SevenFieldsNormalized ==
    [][\A c \in Calls :
        (calls[c].pc # "done" /\ Succeeded(calls'[c]))
          => LET row == CHOOSE x \in site_configs' :
                            x["site_id"] = calls[c].siteUuid
                 ret == Val(Val(calls'[c].result).config)
             IN  /\ DOMAIN ret = Fields
                 /\ \A f \in Fields :
                       /\ row[f] # Null => Some(ret[f]) = row[f]
                       /\ row[f] = Null => ret[f] = Defaults[f]
                 /\ calls[c].pc = "config_fetch" => site_configs' = site_configs
      ]_vars

\* C13 witness: a successful answer for a stored record that holds a null,
\* where the default is returned, and a 0, which is returned as stored.
C13_Witness ==
    \E c \in Calls : \E x \in site_configs :
        /\ Succeeded(calls[c])
        /\ x["cursor_speed"] = Null
        /\ x["exit_hold_ms"] = Some(0)
        /\ Val(Val(calls[c].result).config)["cursor_speed"] = 10
        /\ Val(Val(calls[c].result).config)["exit_hold_ms"] = 0

\* C15: the answer of a successful updateConfig is the answer getConfigBySiteId
\* gives for the record as stored by the update: the normalized row read
\* back, in which the fields outside the payload show their stored values;
\* and getConfigBySiteId answers with the normalized stored row.
C15_UpdateAnswersAsResolve ==
    [][\A c \in Calls :
        /\ (Left(c, "config_update") /\ Succeeded(calls'[c]))
              => LET uuid == Val(calls[c].siteUuid)
                     ret == Val(Val(calls'[c].result).config)
                 IN  /\ Val(calls'[c].result) =
                           Success(calls[c].siteId.v,
                                   NormalizeConfig(RowOf(site_configs', uuid)))
                     /\ \A f \in Fields \ DOMAIN calls[c].updates.kv :
                           ret[f] = View(RowOf(site_configs, uuid), f)
        /\ (Left(c, "config_fetch") /\ Succeeded(calls'[c]))
              => /\ Val(calls'[c].result) =
                       Success(calls[c].siteId.v,
                               NormalizeConfig(RowOf(site_configs,
                                                     Val(calls[c].siteUuid))))
                 /\ site_configs' = site_configs
      ]_vars

\* C15 witness: a successful update answered with a value, not the default,
\* in a field its payload does not name.
C15_Witness ==
    \E c \in Calls :
        /\ calls[c].op = "update"
        /\ Succeeded(calls[c])
        /\ \E f \in Fields \ DOMAIN calls[c].updates.kv :
              Val(Val(calls[c].result).config)[f] # Defaults[f]

IntegerKeys(u) == DOMAIN u.kv \cap IntegerColumns
AllFit(u) == \A f \in IntegerKeys(u) : Len(u.kv[f]) <= 1

\* C16 (as amended): on an existing configuration, an update whose integer
\* fields all hold 32-bit integers (negative ones included) or null succeeds,
\* stores each of them as supplied and answers with it, and getConfigBySiteId
\* reads the stored value back; an update with an integer beyond 32 bits
\* fails with "Failed to update config" and leaves the configurations as
\* they are.
C16_NoClampingWithin32Bits ==
    [][\A c \in Calls :
        /\ (/\ Left(c, "config_update")
            /\ ConfigsMatching(site_configs, Val(calls[c].siteUuid)) # {}
            /\ IntegerKeys(calls[c].updates) # {})
              => LET u == calls[c].updates
                     after == RowOf(site_configs', Val(calls[c].siteUuid))
                 IN  IF AllFit(u)
                     THEN /\ Succeeded(calls'[c])
                          /\ \A f \in IntegerKeys(u) :
                                /\ after[f] = u.kv[f]
                                /\ u.kv[f] # Null =>
                                     Val(Val(calls'[c].result).config)[f] = u.kv[f][1]
                     ELSE /\ ~Val(calls'[c].result).success
                          /\ Val(calls'[c].result).error = "Failed to update config"
                          /\ site_configs' = site_configs
        /\ (Left(c, "config_fetch") /\ Succeeded(calls'[c]))
              => LET row == RowOf(site_configs, Val(calls[c].siteUuid))
                 IN  \A f \in IntegerColumns :
                        row[f] # Null
                          => Val(Val(calls'[c].result).config)[f] = row[f][1]
      ]_vars

\* C16 witness: getConfigBySiteId answered with the negative and the large
\* value an update had supplied.
C16_Witness ==
    \E c \in Calls :
        /\ calls[c].op = "get"
        /\ Succeeded(calls[c])
        /\ Val(Val(calls[c].result).config)["cursor_speed"] = -999999
        /\ Val(Val(calls[c].result).config)["scroll_speed"] = 999999999

\* C16 as first stated: every update of integer fields on an existing
\* configuration succeeds and stores the supplied values, whatever their size.
C16_AnyIntegerAccepted ==
    [][\A c \in Calls :
        (/\ Left(c, "config_update")
         /\ ConfigsMatching(site_configs, Val(calls[c].siteUuid)) # {}
         /\ IntegerKeys(calls[c].updates) # {}
         /\ \A f \in IntegerKeys(calls[c].updates) : calls[c].updates.kv[f] # Null)
          => /\ Succeeded(calls'[c])
             /\ \A f \in IntegerKeys(calls[c].updates) :
                   RowOf(site_configs', Val(calls[c].siteUuid))[f]
                     = calls[c].updates.kv[f]
      ]_vars

StoragePcs ==
    {"site_fetch", "site_insert", "config_fetch", "config_insert",
     "verify_site", "config_update"}

\* C17: a storage error at any store step of getConfigBySiteId or updateConfig
\* ends the invocation with a failure result (success false and a message);
\* and every invocation that leaves a store step either goes on to its next
\* step or ends with a result.
C17_StorageFailureIsResult ==
    [][\A c \in Calls :
        /\ (calls[c].pc \in StoragePcs /\ calls'[c] # calls[c] /\ ~NoFaultNow)
              => /\ calls'[c].pc = "done"
                 /\ calls'[c].result # Null
                 /\ ~Val(calls'[c].result).success
                 /\ Val(calls'[c].result).error # ""
                 /\ Val(calls'[c].result).config = Null
        /\ (calls[c].pc \in StoragePcs /\ calls'[c] # calls[c])
              => /\ calls'[c].pc \in StoragePcs \cup {"done"}
                 /\ calls'[c].pc = "done" => calls'[c].result # Null
      ]_vars

\* C17 witness: an updateConfig call has ended with the failure made from a
\* storage error.
C17_Witness ==
    /\ faults > 0
    /\ \E c \in Calls :
          /\ calls[c].pc = "done"
          /\ calls[c].op = "update"
          /\ Val(calls[c].result).error \in {"fetch failed", "Failed to verify site"}

\* C18: a storage error inside updateConfig is answered by the PUT route with
\* status 500.
C18_StorageFailureIs500 ==
    [][\A c \in Calls :
        (/\ calls[c].pc \in {"verify_site", "config_update"}
         /\ calls'[c] # calls[c]
         /\ ~NoFaultNow)
          => PutStatus(Val(calls'[c].result)) = 500
      ]_vars

\* C19: in every reachable state there is at most one site record for each
\* (site identifier, caller) pair.
C19_OneSitePerPair ==
    \A s \in sites : \A t \in sites :
        (s.site_id = t.site_id /\ s.user_id = t.user_id) => s = t

\* C19 witness: two calls for one new pair both tried to insert the site
\* record; the second insert was refused and the pair has its record.
C19_Witness ==
    \E c \in Calls :
        /\ calls[c].pc = "done"
        /\ ValidGet(calls[c])
        /\ faults = 0
        /\ Val(calls[c].result).error = "Failed to create site"
        /\ OwnSites(calls[c]) # {}

\* C20: in every reachable state there is at most one configuration record
\* per site key, and a getConfigBySiteId call of the owner that finds the
\* site and then a configuration for it succeeds (no storage error), also
\* after two calls raced to insert the configuration.
C20_OneConfigPerSite ==
    /\ [](\A x \in site_configs : \A y \in site_configs :
            x["site_id"] = y["site_id"] => x = y)
    /\ [][\A c \in Calls :
            /\ (Left(c, "site_fetch") /\ NoFaultNow /\ OwnSites(calls[c]) # {})
                  => calls'[c].pc = "config_fetch"
            /\ (/\ Left(c, "config_fetch")
                /\ NoFaultNow
                /\ ConfigsMatching(site_configs, Val(calls[c].siteUuid)) # {})
                  => Succeeded(calls'[c])
          ]_vars

\* C20 witness: of two calls that both found no configuration for the site,
\* one was refused at the insert, and a call for the same site has succeeded.
C20_Witness ==
    \E c \in Calls : \E d \in Calls :
        /\ calls[c].pc = "done"
        /\ ValidGet(calls[c])
        /\ faults = 0
        /\ Val(calls[c].result).error = "Failed to create config"
        /\ Succeeded(calls[d])
        /\ calls[d].siteId = calls[c].siteId
        /\ calls[d].userId = calls[c].userId

\* C21: apiKeyAuth keeps no decision from one request to the next: a request
\* with a non-empty key always goes to the lookup with nothing decided, and
\* when the lookup is answered (no storage error) the request is let through
\* if and only if the row of its key has is_active = true at that moment, so
\* a disabled key is refused and a re-enabled one is accepted at once.
C21_FreshLookup ==
    [][\A r \in Reqs :
        /\ (reqs[r].pc = "idle" /\ reqs'[r].pc # "idle" /\ ~Missing(r)')
              => reqs'[r] = [IdleReq EXCEPT !.pc = "query",
                                            !.apiKey = reqs'[r].apiKey]
        /\ (Decided(r) /\ reqs'[r].error \notin StoreErrors)
              => \A k \in RowsOf(Val(reqs[r].apiKey)) :
                    reqs'[r].nextCalled <=> api_keys[k].is_active = Some(TRUE)
        /\ reqs'[r].nextCalled /\ ~reqs[r].nextCalled => Decided(r)
      ]_vars

\* C21 witness: a key that let a request through was disabled, a request with
\* it was refused, and the key has been enabled again.
C21_Witness ==
    \E r \in Reqs : \E k \in KeyIds :
        /\ reqs[r].pc = "done"
        /\ Rejected(reqs[r], 403, "API key disabled")
        /\ reqs[r].apiKey = Some(api_keys[k].api_key)
        /\ api_keys[k].last_used_at # Null
        /\ api_keys[k].is_active = Some(TRUE)

C23_IdentityOfMatchedRow ==
    \A r \in Reqs :
        reqs[r].nextCalled
          => /\ Cardinality(RowsOf(Val(reqs[r].apiKey))) = 1
             /\ \A k \in RowsOf(Val(reqs[r].apiKey)) :
                   reqs[r].user = Some([userId |-> api_keys[k].user_id,
                                        apiKeyId |-> api_keys[k].id])

\* C23 witness: a request with the second key is let through as its owner.
C23_Witness ==
    \E r \in Reqs :
        /\ reqs[r].nextCalled
        /\ reqs[r].apiKey = Some("tok2")
        /\ reqs[r].user = Some([userId |-> "Y", apiKeyId |-> 2])

\* C24: getConfigBySiteId and updateConfig entered with a site id that is
\* empty or not a string, or without a caller, return a failure at once and
\* never reach a store call, the tables staying as they are; GET /config
\* without siteId is answered 400 and does not enter the service.
C24_InvalidArgumentsRejected ==
    [][/\ \A c \in Calls :
            /\ (/\ calls[c].pc = "idle"
                /\ calls'[c].pc # "idle"
                /\ \/ InvalidSiteId(calls'[c].siteId)
                   \/ InvalidUserId(calls'[c].userId))
                  => /\ calls'[c].pc = "done"
                     /\ ~Val(calls'[c].result).success
                     /\ Val(calls'[c].result).error \in
                          {"Invalid siteId: must be a non-empty string",
                           "Invalid userId: user authentication required"}
                     /\ UNCHANGED <<sites, site_configs, api_keys>>
            /\ calls'[c].pc \in StoragePcs
                  => /\ ~InvalidSiteId(calls'[c].siteId)
                     /\ ~InvalidUserId(calls'[c].userId)
       /\ \A r \in Reqs :
            (~reqs[r].handled /\ reqs'[r].handled)
              => IF calls'[r] = calls[r]
                 THEN /\ reqs'[r].status = 400
                      /\ reqs'[r].resError = "Missing parameter"
                 ELSE /\ reqs'[r].status = 0
                      /\ ~MissingParam(calls'[r].siteId)
      ]_vars

\* C24 witness: an updateConfig call without a caller has been refused and a
\* GET /config request without siteId has been answered 400.
C24_Witness ==
    /\ \E c \in Calls :
          /\ calls[c].pc = "done"
          /\ calls[c].op = "update"
          /\ Val(calls[c].result).error =
                "Invalid userId: user authentication required"
    /\ \E r \in Reqs :
          /\ reqs[r].handled
          /\ reqs[r].status = 400
          /\ reqs[r].resError = "Missing parameter"

\* C25: updateConfig calls on one site that overlap are last-write-wins per
\* field: an update whose site record and configuration record exist is never
\* turned down, whatever the other call is doing; and once updates have
\* succeeded, every field that some of them set holds the value one of those
\* supplied (so a field set by one of them alone holds that one's value).
Setters(f) ==
    {c \in Calls : /\ calls[c].op = "update"
                   /\ Succeeded(calls[c])
                   /\ f \in DOMAIN Sanitize(calls[c].updates)}
C25_LastWriteWinsPerField ==
    /\ [](\A f \in Fields :
            Setters(f) # {}
              => \A x \in site_configs :
                    \E c \in Setters(f) : x[f] = Sanitize(calls[c].updates)[f])
    /\ [][\A c \in Calls :
            /\ (Left(c, "verify_site") /\ OwnSites(calls[c]) # {})
                  => calls'[c].pc = "config_update"
            /\ (/\ Left(c, "config_update")
                /\ ConfigsMatching(site_configs, Val(calls[c].siteUuid)) # {})
                  => Succeeded(calls'[c])
        ]_vars

\* C25 witness: the updates of both slots have succeeded, one having set cursor_speed and scroll_speed, the other exit_hold_ms, and
\* the record holds all three values.
C25_Witness ==
    /\ \A c \in Calls : calls[c].op = "update" /\ Succeeded(calls[c])
    /\ \E c, d \in Calls :
          /\ calls[c].updates = UpdOutOfRange
          /\ calls[d].updates = UpdControl
    /\ \E x \in site_configs :
          /\ x["cursor_speed"] = Some(-999999)
          /\ x["scroll_speed"] = Some(999999999)
          /\ x["exit_hold_ms"] = Some(0)

\* C26: every getConfigBySiteId and updateConfig call ends after a bounded
\* number of store calls: each store call of a running invocation takes it
\* to a later store call or to its result, never back (no lookup, insert or
\* update is tried twice), except that a site insert that failed is followed
\* by one more site lookup.
Rank(pc) ==
    CASE pc \in {"site_fetch", "verify_site"} -> 1
      [] pc \in {"site_insert", "config_update"} -> 2
      [] pc = "config_fetch" -> 3
      [] pc = "config_insert" -> 4
      [] pc = "done" -> 5
      [] OTHER -> 0
Advances(c) ==
    (calls[c].pc \in StoragePcs /\ calls'[c] # calls[c])
      => Rank(calls'[c].pc) > Rank(calls[c].pc)
C26_NoRetryButOneRelookup ==
    [][\A c \in Calls :
        IF Left(c, "site_insert") /\ sites' = sites
        THEN calls'[c].pc = "site_fetch"
        ELSE Advances(c)
      ]_vars

\* C27: no step of apiKeyAuth, getConfigBySiteId or updateConfig removes a
\* record: the ids of the api_keys rows, the site rows and the ids of the
\* configuration rows of one state are all still there in the next.
ConfigIds(rows) == {x["id"] : x \in rows}
C27_NothingDeleted ==
    [][/\ {api_keys[k].id : k \in DOMAIN api_keys}
            \subseteq {api_keys'[k].id : k \in DOMAIN api_keys'}
       /\ sites \subseteq sites'
       /\ ConfigIds(site_configs) \subseteq ConfigIds(site_configs')
       /\ Cardinality(site_configs') >= Cardinality(site_configs)
      ]_vars

\* C27 witness: a request was authenticated (its key's last_used_at is set),
\* its site and configuration were created and then updated, and all three
\* records exist.
C27_Witness ==
    /\ \E k \in DOMAIN api_keys : api_keys[k].last_used_at # Null
    /\ sites # {}
    /\ \E x \in site_configs : x["cursor_speed"] = Some(15)
    /\ \E r \in Reqs : reqs[r].nextCalled /\ calls[r].pc = "idle"

\* C28: the identity of a request that is let through has userId, apiKeyId
\* and apiKeyName, each taken from the row of the presented key.
C28_IdentityCarriesName ==
    \A r \in Reqs :
        reqs[r].nextCalled
          => \A k \in RowsOf(Val(reqs[r].apiKey)) :
                LET user == Val(reqs[r].user)
                IN  /\ DOMAIN user = {"userId", "apiKeyId", "apiKeyName"}
                    /\ user.userId = api_keys[k].user_id
                    /\ user.apiKeyId = api_keys[k].id
                    /\ user.apiKeyName = api_keys[k].name

\* C29: a step of getConfigBySiteId never changes or removes a record that
\* exists (so what updateConfig stored, null fields included, stays), whatever
\* the other calls are doing; and when the site record of its (site, caller)
\* pair and the configuration record of that site both exist, the step writes
\* nothing at all.
PairStored(call) ==
    \E s \in OwnSites(call) : ConfigsMatching(site_configs, s.id) # {}
C29_ResolveWritesNothing ==
    [][\A c \in Calls :
        (/\ calls[c].op = "get"
         /\ calls[c].pc \in StoragePcs
         /\ calls'[c] # calls[c])
          => /\ api_keys' = api_keys
             /\ sites \subseteq sites'
             /\ site_configs \subseteq site_configs'
             /\ PairStored(calls[c])
                   => sites' = sites /\ site_configs' = site_configs
      ]_vars

\* C29 witness: getConfigBySiteId has answered cursor_speed 10 for a record
\* whose cursor_speed an update set to null and whose exit_hold_ms an update
\* set to 0; both are still stored as the updates left them, and another
\* update is under way.
C29_Witness ==
    \E c, d \in Calls :
        /\ calls[c].op = "get"
        /\ Succeeded(calls[c])
        /\ Val(Val(calls[c].result).config)["cursor_speed"] = 10
        /\ Val(Val(calls[c].result).config)["exit_hold_ms"] = 0
        /\ calls[d].op = "update"
        /\ calls[d].pc = "config_update"
        /\ \E x \in site_configs :
              x["cursor_speed"] = Null /\ x["exit_hold_ms"] = Some(0)

\* C30: a last_used_at update is started only in the step that lets a
\* request through, and for the row of the presented key; a request that is
\* answered 401, 403 or 500 starts none and changes no api_keys row; and a
\* step of apiKeyAuth that changes api_keys is the update of a request let
\* through, changing last_used_at of that one row and nothing else.
TouchStarted(r) ==
    reqs[r].touchState # "pending" /\ reqs'[r].touchState = "pending"
C30_TouchOnlyOnSuccess ==
    [][/\ \A r \in Reqs :
            /\ TouchStarted(r)
                  => /\ Decided(r)
                     /\ LetThrough(reqs'[r])
                     /\ Val(reqs'[r].touch).id \in RowsOf(Val(reqs[r].apiKey))
            /\ (reqs[r].pc # "done" /\ reqs'[r].pc = "done" /\ ~reqs'[r].nextCalled)
                  => /\ api_keys' = api_keys
                     /\ reqs'[r].status \in {401, 403, 500}
                     /\ reqs'[r].touchState = "none"
            /\ reqs'[r].touchState # "none" => reqs'[r].nextCalled
       /\ (api_keys' # api_keys /\ reqs' # reqs)
            => \E r \in Reqs :
                  /\ reqs[r].nextCalled
                  /\ reqs[r].touchState = "pending"
                  /\ reqs'[r].touchState = "ok"
                  /\ api_keys' =
                       [api_keys EXCEPT ![Val(reqs[r].touch).id].last_used_at =
                                           Some(Val(reqs[r].touch).ts)]
      ]_vars

\* C30 witness: a request with the second key was let through and its update
\* has reached the store: that row has a last_used_at, the other has none,
\* and the row's is_active and owner are as provisioned.
C30_Witness ==
    \E r \in Reqs :
        /\ reqs[r].nextCalled
        /\ reqs[r].apiKey = Some("tok2")
        /\ reqs[r].touchState = "ok"
        /\ api_keys[2].last_used_at # Null
        /\ api_keys[1].last_used_at = Null
        /\ api_keys[2].is_active = Some(TRUE)
        /\ api_keys[2].user_id = "Y"

\* C31: while a site record has no configuration record, the store step of
\* updateConfig for it fails and creates none; a getConfigBySiteId whose
\* store calls succeed then goes on from the empty lookup to the insert,
\* which stores the row of seven defaults and answers success with them; and
\* once the record exists, the store step of updateConfig succeeds.
NoConfigFor(call) == ConfigsMatching(site_configs, Val(call.siteUuid)) = {}
C31_MissingConfigRecovered ==
    [][\A c \in Calls :
        /\ (Left(c, "config_update") /\ NoConfigFor(calls[c]))
              => /\ calls'[c].pc = "done"
                 /\ ~Val(calls'[c].result).success
                 /\ site_configs' = site_configs
        /\ (Left(c, "config_fetch") /\ NoFaultNow /\ NoConfigFor(calls[c]))
              => calls'[c].pc = "config_insert" /\ site_configs' = site_configs
        /\ (Left(c, "config_insert") /\ NoFaultNow /\ NoConfigFor(calls[c]))
              => /\ Succeeded(calls'[c])
                 /\ \A f \in Fields :
                       Val(Val(calls'[c].result).config)[f] = Defaults[f]
                 /\ \E x \in site_configs' :
                       /\ site_configs' = site_configs \cup {x}
                       /\ x["site_id"] = calls[c].siteUuid
                       /\ \A f \in Fields : x[f] = Some(Defaults[f])
        /\ (Left(c, "config_update") /\ ~NoConfigFor(calls[c]))
              => Succeeded(calls'[c])
      ]_vars

\* C31 witness: getConfigBySiteId created the site and failed at the lookup
\* of the configuration; the site has no configuration record, and an
\* updateConfig for it has failed at its store step.
C31_Witness ==
    \E c, d \in Calls :
        /\ calls[d].op = "get"
        /\ calls[d].pc = "done"
        /\ Val(calls[d].result).error = "Failed to query config"
        /\ calls[c].op = "update"
        /\ calls[c].pc = "done"
        /\ Val(calls[c].result).error = "Failed to update config"
        /\ sites # {}
        /\ site_configs = {}

\* C32: the whitelist of updateConfig leaves out a whitelisted key exactly
\* when its value is undefined: a whitelisted key given as null is sent to
\* the store, so that the update is not turned down for want of valid
\* fields; the store step writes null over the field and leaves a field
\* given as undefined as it was; and getConfigBySiteId answers a field
\* stored as null with its default.
NullKeys(updates) ==
    {f \in Fields : f \in DOMAIN updates.kv /\ updates.kv[f] = Null}
C32_NullKeptUndefinedDropped ==
    [][\A c \in Calls :
        LET u == calls[c].updates
        IN  /\ (Left(c, "verify_site") /\ OwnSites(calls[c]) # {})
                  => IF DOMAIN u.kv \cap Fields = {}
                     THEN Val(calls'[c].result).error = "No valid fields to update"
                     ELSE /\ calls'[c].pc = "config_update"
                          /\ DOMAIN calls'[c].patch \ {"updated_at"}
                                = DOMAIN u.kv \cap Fields
                          /\ \A f \in NullKeys(u) : calls'[c].patch[f] = Null
            /\ (Left(c, "config_update") /\ ~NoConfigFor(calls[c]))
                  => LET before == RowOf(site_configs, Val(calls[c].siteUuid))
                         after == RowOf(site_configs', Val(calls[c].siteUuid))
                     IN  /\ Succeeded(calls'[c])
                         /\ \A f \in NullKeys(u) :
                               /\ after[f] = Null
                               /\ Val(Val(calls'[c].result).config)[f] = Defaults[f]
                         /\ \A f \in u.undef \cap Fields : after[f] = before[f]
            /\ (Left(c, "config_fetch") /\ Succeeded(calls'[c]))
                  => LET row == RowOf(site_configs, Val(calls[c].siteUuid))
                     IN  \A f \in Fields :
                            row[f] = Null
                              => Val(Val(calls'[c].result).config)[f] = Defaults[f]
      ]_vars

\* C32 witness: cursor_speed, which an update had set to 15 together with
\* scroll_speed 20, was then set to null by an update that also named
\* exit_hold_ms as undefined; the record holds null, and getConfigBySiteId
\* has answered cursor_speed 10 and scroll_speed 20.
C32_Witness ==
    \E c, d \in Calls :
        /\ calls[c].op = "update"
        /\ calls[c].updates = UpdNull
        /\ Succeeded(calls[c])
        /\ calls[d].op = "get"
        /\ Succeeded(calls[d])
        /\ Val(Val(calls[d].result).config)["cursor_speed"] = 10
        /\ Val(Val(calls[d].result).config)["scroll_speed"] = 20
        /\ \E x \in site_configs :
              /\ x["cursor_speed"] = Null
              /\ x["scroll_speed"] = Some(20)
              /\ x["exit_hold_ms"] # Null

\* C33: every configuration record has as site_id the id of a site record
\* that exists; a configuration record that a step creates is keyed by a site
\* record that existed before the step; and no step of updateConfig changes
\* the id or the site_id of a configuration record, whatever keys the payload
\* names.
Keys(rows) == {<<x["id"], x["site_id"]>> : x \in rows}
KeyedBySite(rows, siteRows) ==
    \A x \in rows : \E s \in siteRows : x["site_id"] = Some(s.id)
====
